---- MODULE Spec2Model ----
(***************************************************************************)
(* Task Management API: the task router (create, list, leaderboard,        *)
(* update, delete) over the Task Store and the User Directory.             *)
(*                                                                         *)
(* Conventions of the model                                                *)
(*   - a string field that is undefined/null/empty in JavaScript is "";    *)
(*     a missing due date is NoDate; task ids (_id) are 1, 2, ... in       *)
(*     creation order, as ObjectIds are, and are never reused;             *)
(*   - a handler is cut at its awaits on the Task Store: the code between  *)
(*     two store accesses is one action.  The User Directory is never      *)
(*     written by the task router, so its lookups are part of the action   *)
(*     around them;                                                        *)
(*   - slots hold the requests that wait on the store, each with the       *)
(*     locals its handler still reads; last is the request the latest step *)
(*     finished, with its response, and Idle if that step finished none.   *)
(***************************************************************************)
EXTENDS Integers, Sequences, FiniteSets, TLC

(***************************************************************************)
(* Bounds                                                                  *)
(***************************************************************************)
MaxTasks == 1        \* tasks created in a behaviour of Spec and SpecLegacy
MaxStored == 3       \* tasks in a store of SpecSort and of SpecBoard
MaxListed == 2       \* tasks in a store of SpecRead
MaxInFlight == 2     \* requests waiting on the store at a time
MaxDate == 2         \* due dates are 1..MaxDate

(***************************************************************************)
(* User Directory                                                          *)
(***************************************************************************)
Users == {"u1", "u2", "adm"}

Role(u) == IF u = "adm" THEN "admin" ELSE "user"

\* A well-formed ObjectId that names no user, and a string that is no ObjectId.
Ghost == "ghost"

BadId == "not-an-id"

IsMongoId(x) == x # BadId

UserFindById(x) == IF x \in Users THEN x ELSE ""

(***************************************************************************)
(* Task documents                                                          *)
(***************************************************************************)
NoDate == 0

BadDate == -1

Dates == 1..MaxDate

StatusEnum == {"To Do", "In Progress", "Completed"}

PriorityEnum == {"Low", "Medium", "High"}

Paths == {"title", "description", "status", "priority", "dueDate", "image",
          "createdBy", "assignedTo"}

NoTask == [_id |-> 0, title |-> "", description |-> "", status |-> "",
           priority |-> "", dueDate |-> NoDate, image |-> "", createdBy |-> "",
           assignedTo |-> ""]

\* a || b of JavaScript on strings and on dates
Or(a, b) == IF a = "" THEN b ELSE a

OrDate(a, b) == IF a = NoDate THEN b ELSE a

\* A variant of the schema without the enum of status and priority.
ValidPath_NoEnum(t, p) ==
    CASE p = "title" -> t.title # ""
      [] p = "dueDate" -> t.dueDate # BadDate
      [] p = "createdBy" -> t.createdBy # "" /\ IsMongoId(t.createdBy)
      [] p = "assignedTo" -> IsMongoId(t.assignedTo)
      [] OTHER -> TRUE

\* Schema validation of one path, as save() runs it.
ValidPath(t, p) ==
    CASE p = "title" -> t.title # ""
      [] p = "status" -> t.status \in StatusEnum
      [] p = "priority" -> t.priority \in PriorityEnum
      [] p = "dueDate" -> t.dueDate # BadDate
      [] p = "createdBy" -> t.createdBy # "" /\ IsMongoId(t.createdBy)
      [] p = "assignedTo" -> IsMongoId(t.assignedTo)
      [] OTHER -> TRUE

\* A variant of new Task({...}) that records the assignee as the creator.
NewTask_AssigneeAsCreator(id, u, b, img) ==
    [_id |-> id,
     title |-> b.title,
     description |-> b.description,
     status |-> IF b.status = "" THEN "To Do" ELSE b.status,
     priority |-> IF b.priority = "" THEN "Low" ELSE b.priority,
     dueDate |-> b.dueDate,
     image |-> img,
     createdBy |-> Or(b.assignedTo, u),
     assignedTo |-> Or(b.assignedTo, u)]

\* new Task({...}): the schema defaults fill in an undefined status or priority.
NewTask(id, u, b, img) ==
    [_id |-> id,
     title |-> b.title,
     description |-> b.description,
     status |-> IF b.status = "" THEN "To Do" ELSE b.status,
     priority |-> IF b.priority = "" THEN "Low" ELSE b.priority,
     dueDate |-> b.dueDate,
     image |-> img,
     createdBy |-> u,
     assignedTo |-> Or(b.assignedTo, u)]

NoBody == [title |-> "", description |-> "", status |-> "", priority |-> "",
           dueDate |-> NoDate, assignedTo |-> "", createdBy |-> "",
           file |-> ""]

NoQuery == [status |-> "", priority |-> "", dueDate |-> NoDate, sort |-> <<>>]

(***************************************************************************)
(* State                                                                   *)
(***************************************************************************)
VARIABLES
    tasks,          \* the Task Store: a set of task documents, one per _id
    nextId,         \* the next _id the store hands out
    sortDirection,  \* the global the list handler assigns (0: never assigned)
    reqs,           \* slot -> the request waiting there on the store, or Idle
    last            \* the request the latest step finished, with its response

vars == <<tasks, nextId, sortDirection, reqs, last>>

Slots == 1..MaxInFlight

Idle == [op |-> "idle", pc |-> "idle", user |-> "", id |-> 0, body |-> NoBody,
         query |-> NoQuery, task |-> NoTask, mod |-> {}, tasks |-> <<>>,
         rows |-> <<>>, status |-> 0]

Ids(store) == {t._id : t \in store}

FindById(store, id) ==
    IF id \in Ids(store) THEN CHOOSE t \in store : t._id = id ELSE NoTask

\* A request takes the first free slot.
CanStart(s) ==
    /\ reqs[s] = Idle
    /\ \A x \in Slots : reqs[x] = Idle => ~(x < s)

Respond(r, code) == [r EXCEPT !.pc = "done", !.status = code]

(***************************************************************************)
(* POST /  (primary router)                                                *)
(***************************************************************************)
\* The express-validator chain of the primary router.
CreateChecks(b) ==
    /\ b.title # ""
    /\ b.dueDate # BadDate
    /\ (b.assignedTo # "" => IsMongoId(b.assignedTo))

\* The response of the handler and the document it saves (NoTask: none).
CreateOutcome(id, u, b) ==
    IF ~CreateChecks(b) THEN [status |-> 400, task |-> NoTask]
    ELSE IF b.assignedTo # "" /\ UserFindById(b.assignedTo) = ""
         THEN [status |-> 400, task |-> NoTask]
    ELSE LET t == NewTask(id, u, b, IF b.file # "" THEN "/uploads/file" ELSE "")
         IN  IF \A p \in Paths : ValidPath(t, p)
             THEN [status |-> 201, task |-> t]
             ELSE [status |-> 500, task |-> NoTask]

CreateTask(u, b) ==
    LET out == CreateOutcome(nextId, u, b)
    IN  /\ out.status = 201 => nextId <= MaxTasks
        /\ tasks' = IF out.status = 201 THEN tasks \cup {out.task} ELSE tasks
        /\ nextId' = IF out.status = 201 THEN nextId + 1 ELSE nextId
        /\ last' = [Idle EXCEPT !.op = "create", !.pc = "done", !.user = u,
                                !.body = b, !.task = out.task,
                                !.status = out.status]
        /\ UNCHANGED <<sortDirection, reqs>>

(***************************************************************************)
(* POST /  (routes/taskRoutes.js)                                          *)
(***************************************************************************)
CreateChecksLegacy(b) ==
    /\ b.title # ""
    /\ b.dueDate # BadDate

CreateOutcomeLegacy(id, u, b) ==
    IF ~CreateChecksLegacy(b) THEN [status |-> 400, task |-> NoTask]
    ELSE LET t == NewTask(id, u, b, IF b.file # "" THEN "uploads/file" ELSE "")
         IN  IF \A p \in Paths : ValidPath(t, p)
             THEN [status |-> 201, task |-> t]
             ELSE [status |-> 500, task |-> NoTask]

CreateTaskLegacy(u, b) ==
    LET out == CreateOutcomeLegacy(nextId, u, b)
    IN  /\ out.status = 201 => nextId <= MaxTasks
        /\ tasks' = IF out.status = 201 THEN tasks \cup {out.task} ELSE tasks
        /\ nextId' = IF out.status = 201 THEN nextId + 1 ELSE nextId
        /\ last' = [Idle EXCEPT !.op = "createLegacy", !.pc = "done", !.user = u,
                                !.body = b, !.task = out.task,
                                !.status = out.status]
        /\ UNCHANGED <<sortDirection, reqs>>

(***************************************************************************)
(* PUT /:id and DELETE /:id                                                *)
(***************************************************************************)
\* A variant of the gate that also lets the assignee through.
Authorized_OrAssignee(t, u) ==
    t.createdBy = u \/ t.assignedTo = u \/ Role(u) = "admin"

\* The ownership gate of update and delete.
Authorized(t, u) == t.createdBy = u \/ Role(u) = "admin"

\* A variant of the assignments that also takes createdBy from the body.
Assign_TakesCreatedBy(t, b) ==
    [t EXCEPT !.title = Or(b.title, t.title),
              !.description = Or(b.description, t.description),
              !.status = Or(b.status, t.status),
              !.priority = Or(b.priority, t.priority),
              !.dueDate = OrDate(b.dueDate, t.dueDate),
              !.assignedTo = Or(b.assignedTo, t.assignedTo),
              !.createdBy = Or(b.createdBy, t.createdBy)]

\* The six assignments of the update handler on the document it read.
Assign(t, b) ==
    [t EXCEPT !.title = Or(b.title, t.title),
              !.description = Or(b.description, t.description),
              !.status = Or(b.status, t.status),
              !.priority = Or(b.priority, t.priority),
              !.dueDate = OrDate(b.dueDate, t.dueDate),
              !.assignedTo = Or(b.assignedTo, t.assignedTo)]

\* The paths an assignment changed: the ones save() validates and writes.
Modified(t, local) == {p \in Paths : local[p] # t[p]}

\* A variant of save() that writes the whole document the handler holds.
SetPaths_WholeDocument(cur, local, mod) == local

\* updateOne({_id}, {$set: modified paths}) on the stored document.
SetPaths(cur, local, mod) ==
    [_id |-> cur._id,
     title |-> IF "title" \in mod THEN local.title ELSE cur.title,
     description |-> IF "description" \in mod THEN local.description
                     ELSE cur.description,
     status |-> IF "status" \in mod THEN local.status ELSE cur.status,
     priority |-> IF "priority" \in mod THEN local.priority ELSE cur.priority,
     dueDate |-> IF "dueDate" \in mod THEN local.dueDate ELSE cur.dueDate,
     image |-> IF "image" \in mod THEN local.image ELSE cur.image,
     createdBy |-> IF "createdBy" \in mod THEN local.createdBy
                   ELSE cur.createdBy,
     assignedTo |-> IF "assignedTo" \in mod THEN local.assignedTo
                    ELSE cur.assignedTo]


\* findById, then the 404 and the 403 return: 0 when the handler goes on.
Gate(t, u) ==
    IF t = NoTask THEN 404
    ELSE IF ~Authorized(t, u) THEN 403
    ELSE 0

\* PUT /:id up to its await on save(): the gate, then the six assignments.
UpdateFind(s, u, id, b) ==
    /\ CanStart(s)
    /\ LET t == FindById(tasks, id)
           r == [Idle EXCEPT !.op = "update", !.user = u, !.id = id, !.body = b]
       IN  IF Gate(t, u) # 0
           THEN /\ last' = Respond(r, Gate(t, u))
                /\ UNCHANGED reqs
           ELSE /\ reqs' = [reqs EXCEPT ![s] =
                              [r EXCEPT !.pc = "saving", !.task = Assign(t, b),
                                        !.mod = Modified(t, Assign(t, b))]]
                /\ last' = Idle
    /\ UNCHANGED <<tasks, nextId, sortDirection>>

\* A variant of save() that inserts the document when it is no longer stored.
SaveStore_Upsert(store, r) ==
    IF \E p \in r.mod : ~ValidPath(r.task, p) THEN store
    ELSE {t \in store : t._id # r.id} \cup {r.task}

\* What save() of a loaded document leaves in the store: it validates the
\* modified paths, then updates the stored document by _id and never inserts.
SaveStore(store, r) ==
    IF \E p \in r.mod : ~ValidPath(r.task, p) THEN store
    ELSE IF r.id \notin Ids(store) THEN store
    ELSE (store \ {FindById(store, r.id)})
            \cup {SetPaths(FindById(store, r.id), r.task, r.mod)}

\* 500 from the catch: a validation error, or no document left to update.
SaveStatus(store, r) ==
    IF \E p \in r.mod : ~ValidPath(r.task, p) THEN 500
    ELSE IF r.id \notin Ids(store) THEN 500
    ELSE 200

UpdateSave(s) ==
    /\ reqs[s].op = "update" /\ reqs[s].pc = "saving"
    /\ tasks' = SaveStore(tasks, reqs[s])
    /\ last' = Respond(reqs[s], SaveStatus(tasks, reqs[s]))
    /\ reqs' = [reqs EXCEPT ![s] = Idle]
    /\ UNCHANGED <<nextId, sortDirection>>

\* A variant of DELETE /:id that removes the document before the 403 return.
DeleteFind_DeleteBeforeGate(s, u, id) ==
    /\ CanStart(s)
    /\ LET t == FindById(tasks, id)
           r == [Idle EXCEPT !.op = "delete", !.user = u, !.id = id]
       IN  IF Gate(t, u) # 0
           THEN /\ last' = Respond(r, Gate(t, u))
                /\ tasks' = {x \in tasks : x._id # id}
                /\ UNCHANGED reqs
           ELSE /\ reqs' = [reqs EXCEPT ![s] = [r EXCEPT !.pc = "deleting"]]
                /\ last' = Idle
                /\ UNCHANGED tasks
    /\ UNCHANGED <<nextId, sortDirection>>

\* DELETE /:id up to its await on deleteOne().
DeleteFind(s, u, id) ==
    /\ CanStart(s)
    /\ LET t == FindById(tasks, id)
           r == [Idle EXCEPT !.op = "delete", !.user = u, !.id = id]
       IN  IF Gate(t, u) # 0
           THEN /\ last' = Respond(r, Gate(t, u))
                /\ UNCHANGED reqs
           ELSE /\ reqs' = [reqs EXCEPT ![s] = [r EXCEPT !.pc = "deleting"]]
                /\ last' = Idle
    /\ UNCHANGED <<tasks, nextId, sortDirection>>

\* deleteOne() removes the document with that _id, if it is still there.
DeleteOne(s) ==
    /\ reqs[s].op = "delete" /\ reqs[s].pc = "deleting"
    /\ tasks' = {t \in tasks : t._id # reqs[s].id}
    /\ last' = Respond(reqs[s], 200)
    /\ reqs' = [reqs EXCEPT ![s] = Idle]
    /\ UNCHANGED <<nextId, sortDirection>>

(***************************************************************************)
(* GET /  (primary router)                                                 *)
(***************************************************************************)
\* The sort parameter is a sequence of tokens: <<>> when absent,
\* <<"dueDate">> for "dueDate", <<"-", "dueDate">> for "-dueDate".
StartsWithDash(sort) == sort # <<>> /\ sort[1] = "-"

SortField(sort) == IF StartsWithDash(sort) THEN Tail(sort) ELSE sort

SortDir(sort) == IF StartsWithDash(sort) THEN -1 ELSE 1

Includes(sort, token) == \E i \in 1..Len(sort) : sort[i] = token

\* sortOptions, in the order its keys are set.
SortOptions(sort) ==
    IF sort = <<>> THEN <<>>
    ELSE IF SortField(sort) = <<"dueDate">>
         THEN << <<SortField(sort), SortDir(sort)>>, << <<"_id">>, SortDir(sort)>> >>
    ELSE << <<SortField(sort), SortDir(sort)>> >>

\* Mutant of Matches: the role check is dropped from the query.
Matches_NoVisibility(t, u, q) ==
    /\ (q.status # "" => t.status = q.status)
    /\ (q.priority # "" => t.priority = q.priority)
    /\ (q.dueDate # NoDate => t.dueDate = q.dueDate)

\* The query object: the visibility restriction and the equality filters.
Matches(t, u, q) ==
    /\ (Role(u) # "admin" => (t.createdBy = u \/ t.assignedTo = u))
    /\ (q.status # "" => t.status = q.status)
    /\ (q.priority # "" => t.priority = q.priority)
    /\ (q.dueDate # NoDate => t.dueDate = q.dueDate)

\* The store's value of a sort key: a missing due date sorts before every date.
FieldKey(t, f) ==
    IF f = <<"dueDate">> THEN (IF t.dueDate = NoDate THEN 0 ELSE t.dueDate)
    ELSE IF f = <<"_id">> THEN t._id
    ELSE 0

RECURSIVE Cmp(_, _, _)
Cmp(a, b, opts) ==
    IF opts = <<>> THEN 0
    ELSE LET ka == FieldKey(a, opts[1][1])
             kb == FieldKey(b, opts[1][1])
         IN  IF ka < kb THEN -(opts[1][2])
             ELSE IF ka > kb THEN opts[1][2]
             ELSE Cmp(a, b, Tail(opts))

\* a comes before b in the cursor: by the sort keys, then in insertion order.
Before(a, b, opts) ==
    \/ Cmp(a, b, opts) < 0
    \/ Cmp(a, b, opts) = 0 /\ a._id < b._id

\* find(query).sort(sortOptions) as a sequence.
RECURSIVE SortDocs(_, _)
SortDocs(S, opts) ==
    IF S = {} THEN <<>>
    ELSE LET first == CHOOSE a \in S : \A b \in S \ {a} : Before(a, b, opts)
         IN  <<first>> \o SortDocs(S \ {first}, opts)

\* populate(path, 'name email'): the reference becomes the user, or null.
Populate(t, both) ==
    [t EXCEPT !.createdBy = IF both THEN UserFindById(t.createdBy) ELSE t.createdBy,
              !.assignedTo = UserFindById(t.assignedTo)]

PopulateAll(seq, both) == [i \in 1..Len(seq) |-> Populate(seq[i], both)]

Find(store, u, q) ==
    PopulateAll(SortDocs({t \in store : Matches(t, u, q)}, SortOptions(q.sort)),
                TRUE)

\* tasks.filter(task => task.dueDate) and tasks.filter(task => !task.dueDate)
WithDueDate(seq) == SelectSeq(seq, LAMBDA t : t.dueDate # NoDate)

WithoutDueDate(seq) == SelectSeq(seq, LAMBDA t : t.dueDate = NoDate)

Reverse(seq) == [i \in 1..Len(seq) |-> seq[Len(seq) + 1 - i]]

\* Mutant of Reorder: the tasks without a due date are left out of the response.
Reorder_DropUndated(found, sort, dir) ==
    IF sort # <<>> /\ Includes(sort, "dueDate")
    THEN IF dir = -1 THEN Reverse(WithDueDate(found)) ELSE WithDueDate(found)
    ELSE found

\* The post-query reordering, with the sort direction it reads at that time.
Reorder(found, sort, dir) ==
    IF sort # <<>> /\ Includes(sort, "dueDate")
    THEN IF dir = -1
         THEN Reverse(WithDueDate(found)) \o WithoutDueDate(found)
         ELSE WithDueDate(found) \o WithoutDueDate(found)
    ELSE found

\* The handler up to the await on find(): it assigns the global sortDirection
\* and runs the query; a due date that is no date makes the query throw.
ListFind(s, u, q) ==
    /\ CanStart(s)
    /\ sortDirection' = IF q.sort # <<>> THEN SortDir(q.sort) ELSE sortDirection
    /\ LET r == [Idle EXCEPT !.op = "list", !.user = u, !.query = q]
       IN  IF q.dueDate = BadDate
           THEN /\ last' = Respond(r, 500)
                /\ UNCHANGED reqs
           ELSE /\ reqs' = [reqs EXCEPT ![s] =
                              [r EXCEPT !.pc = "queried",
                                        !.tasks = Find(tasks, u, q)]]
                /\ last' = Idle
    /\ UNCHANGED <<tasks, nextId>>

\* The handler after the await: it reads the global sortDirection.
ListRespond(s) ==
    /\ reqs[s].op = "list" /\ reqs[s].pc = "queried"
    /\ last' = [Respond(reqs[s], 200) EXCEPT
                  !.tasks = Reorder(reqs[s].tasks, reqs[s].query.sort,
                                    sortDirection)]
    /\ reqs' = [reqs EXCEPT ![s] = Idle]
    /\ UNCHANGED <<tasks, nextId, sortDirection>>

(***************************************************************************)
(* GET /  (routes/taskRoutes.js): no filters, no sort                      *)
(***************************************************************************)
FindLegacy(store, u) ==
    IF Role(u) = "admin"
    THEN PopulateAll(SortDocs(store, <<>>), FALSE)
    ELSE PopulateAll(SortDocs({t \in store : t.createdBy = u \/ t.assignedTo = u},
                              <<>>), TRUE)

ListTasksLegacy(u, q) ==
    /\ last' = [Idle EXCEPT !.op = "listLegacy", !.pc = "done", !.user = u,
                            !.query = q, !.status = 200,
                            !.tasks = FindLegacy(tasks, u)]
    /\ UNCHANGED <<tasks, nextId, sortDirection, reqs>>

(***************************************************************************)
(* GET /leaderboard                                                        *)
(***************************************************************************)
\* $match status Completed, $group by assignedTo with $sum 1.
CompletedBy(store, a) ==
    Cardinality({t \in store : t.status = "Completed" /\ t.assignedTo = a})

\* Mutant of BoardRows: the groups are not joined with the users.
BoardRows_NoLookup(store) ==
    {[_id |-> a, completedTasks |-> CompletedBy(store, a)] :
        a \in {t.assignedTo : t \in {x \in store : x.status = "Completed"}}}

\* $lookup in users and $unwind: a group whose _id names no user is dropped.
BoardRows(store) ==
    {[_id |-> a, completedTasks |-> CompletedBy(store, a)] :
        a \in {t.assignedTo : t \in {x \in store : x.status = "Completed"}}
              \cap Users}

\* $sort {completedTasks: -1}: the order of rows with equal counts is the
\* store's choice.
BoardSorted(seq) ==
    \A i, j \in 1..Len(seq) :
        i < j => seq[i].completedTasks >= seq[j].completedTasks

Aggregate(store) ==
    {seq \in [1..Cardinality(BoardRows(store)) -> BoardRows(store)] :
        /\ \A i, j \in 1..Len(seq) : i # j => seq[i] # seq[j]
        /\ BoardSorted(seq)}

Leaderboard(u) ==
    /\ \E rows \in Aggregate(tasks) :
         last' = [Idle EXCEPT !.op = "leaderboard", !.pc = "done", !.user = u,
                              !.status = 200, !.rows = rows]
    /\ UNCHANGED <<tasks, nextId, sortDirection, reqs>>

(***************************************************************************)
(* Spec: the primary router on a store that starts empty; up to            *)
(* MaxInFlight requests wait on the store at a time                        *)
(***************************************************************************)
Creators == {"u1", "adm"}

\* A body that names an assignee also carries a createdBy, which no handler
\* reads.
CreateBodies ==
    {[NoBody EXCEPT !.title = "T", !.assignedTo = a,
                    !.createdBy = IF a = "" THEN "" ELSE "u2"] :
        a \in {"", "u2", Ghost}}

UpdateBodies == {[NoBody EXCEPT !.assignedTo = "u2", !.createdBy = "u2"]}

Listers == {"adm"}

TaskIds == 1..MaxTasks

Init ==
    /\ tasks = {}
    /\ nextId = 1
    /\ sortDirection = 0
    /\ reqs = [s \in Slots |-> Idle]
    /\ last = Idle

Mutations ==
    \/ \E s \in Slots, u \in Users, id \in TaskIds, b \in UpdateBodies :
          UpdateFind(s, u, id, b)
    \/ \E s \in Slots : UpdateSave(s)
    \/ \E s \in Slots, u \in Users, id \in TaskIds : DeleteFind(s, u, id)
    \/ \E s \in Slots : DeleteOne(s)

Next ==
    \/ \E u \in Creators, b \in CreateBodies : CreateTask(u, b)
    \/ Mutations
    \/ \E s \in Slots, u \in Listers : ListFind(s, u, NoQuery)
    \/ \E s \in Slots : ListRespond(s)

Spec == Init /\ [][Next]_vars

(***************************************************************************)
(* SpecOwner: the requests that write the store, without the list requests *)
(***************************************************************************)
NextOwner ==
    \/ \E u \in Creators, b \in CreateBodies : CreateTask(u, b)
    \/ Mutations

SpecOwner == Init /\ [][NextOwner]_vars

(***************************************************************************)
(* SpecLegacy: the router of routes/taskRoutes.js, whose update and delete *)
(* handlers are those of the primary router line for line                  *)
(***************************************************************************)
NextLegacy ==
    \/ \E u \in Creators, b \in CreateBodies : CreateTaskLegacy(u, b)
    \/ Mutations
    \/ \E u \in Listers : ListTasksLegacy(u, NoQuery)

SpecLegacy == Init /\ [][NextLegacy]_vars

(***************************************************************************)
(* Stores for the read-only specifications: tasks 1..k, each drawn from a  *)
(* set of documents that earlier creates and updates can have stored       *)
(***************************************************************************)
Doc(cb, at, st, pr, due) ==
    [_id |-> 0, title |-> "T", description |-> "", status |-> st,
     priority |-> pr, dueDate |-> due, image |-> "", createdBy |-> cb,
     assignedTo |-> at]

StoresOf(n, D) ==
    UNION {{{[f[i] EXCEPT !._id = i] : i \in 1..k} : f \in [1..k -> D]} :
             k \in 0..n}

ReadDocs ==
    {Doc(cb, at, x[1], x[2], x[3]) :
        cb \in {"u1", "adm"}, at \in {"u1", "u2"},
        x \in {<<"To Do", "Low", NoDate>>, <<"Completed", "Low", 1>>,
               <<"To Do", "High", 1>>}}

BoardDocs ==
    {Doc("u1", at, st, "Low", NoDate) :
        at \in {"u1", "u2", Ghost}, st \in {"To Do", "Completed"}}

DateDocs == {Doc("u1", "u1", "To Do", "Low", due) : due \in {NoDate} \cup Dates}

(***************************************************************************)
(* SpecRead: one request at a time reads a store that does not change      *)
(***************************************************************************)
Readers == {"u1", "adm"}

ReadQueries ==
    {[status |-> st, priority |-> pr, dueDate |-> ds[1], sort |-> ds[2]] :
        st \in {"", "To Do"}, pr \in {"", "High"},
        ds \in {<<NoDate, <<>> >>, <<1, <<>> >>, <<NoDate, <<"-", "dueDate">> >>,
                <<BadDate, <<>> >>}}

InitRead ==
    /\ tasks \in StoresOf(MaxListed, ReadDocs)
    /\ nextId = Cardinality(tasks) + 1
    /\ sortDirection = 0
    /\ reqs = [s \in Slots |-> Idle]
    /\ last = Idle

NextRead ==
    \/ \E u \in Readers, q \in ReadQueries : ListFind(1, u, q)
    \/ ListRespond(1)
    \/ /\ reqs[1] = Idle
       /\ \E u \in Readers, q \in {NoQuery, [NoQuery EXCEPT !.status = "To Do"]} :
             ListTasksLegacy(u, q)

SpecRead == InitRead /\ [][NextRead]_vars

(***************************************************************************)
(* SpecSort: list requests with a sort, up to MaxInFlight at a time, on a  *)
(* store whose tasks differ in their due dates                             *)
(***************************************************************************)
Sorts == {<<"dueDate">>, <<"-", "dueDate">>, <<"-", "_id">>}

InitSort ==
    /\ tasks \in StoresOf(MaxStored, DateDocs)
    /\ nextId = Cardinality(tasks) + 1
    /\ sortDirection = 0
    /\ reqs = [s \in Slots |-> Idle]
    /\ last = Idle

NextSort ==
    \/ \E s \in Slots, so \in Sorts :
          ListFind(s, "adm", [NoQuery EXCEPT !.sort = so])
    \/ \E s \in Slots : ListRespond(s)

SpecSort == InitSort /\ [][NextSort]_vars

(***************************************************************************)
(* SpecBoard: leaderboard requests on a store whose tasks differ in their  *)
(* assignee and status                                                     *)
(***************************************************************************)
InitBoard ==
    /\ tasks \in StoresOf(MaxStored, BoardDocs)
    /\ nextId = Cardinality(tasks) + 1
    /\ sortDirection = 0
    /\ reqs = [s \in Slots |-> Idle]
    /\ last = Idle

NextBoard == \E u \in Users : Leaderboard(u)

SpecBoard == InitBoard /\ [][NextBoard]_vars

(***************************************************************************)
(* SpecUpdate: update requests for the tasks 1..MaxTasks, up to            *)
(* MaxInFlight at a time, on a store of tasks that carry an image          *)
(***************************************************************************)
UpdateDocs ==
    {[Doc("u1", "u1", "To Do", "Low", NoDate) EXCEPT !.image = "/uploads/file"]}

Updaters == {"adm"}

UpdatePayloads ==
    {[NoBody EXCEPT !.status = "In Progress"],
     [NoBody EXCEPT !.status = "Completed"],
     [NoBody EXCEPT !.title = "T2", !.description = "D2", !.priority = "High",
                    !.dueDate = 2, !.assignedTo = "u2"]}

InitUpdate ==
    /\ tasks \in StoresOf(MaxListed, UpdateDocs)
    /\ nextId = Cardinality(tasks) + 1
    /\ sortDirection = 0
    /\ reqs = [s \in Slots |-> Idle]
    /\ last = Idle

NextUpdate ==
    \/ \E s \in Slots, u \in Updaters, id \in TaskIds, b \in UpdatePayloads :
          UpdateFind(s, u, id, b)
    \/ \E s \in Slots : UpdateSave(s)

SpecUpdate == InitUpdate /\ [][NextUpdate]_vars

(***************************************************************************)
(* SpecValid: create and update requests whose payloads break the schema   *)
(* among ones that keep it, from an empty store                            *)
(***************************************************************************)
ValidCreateBodies ==
    {[NoBody EXCEPT !.title = "T"],
     [NoBody EXCEPT !.title = "T", !.status = "Completed", !.priority = "High"],
     [NoBody EXCEPT !.status = "Completed"],
     [NoBody EXCEPT !.title = "T", !.status = "Bogus"],
     [NoBody EXCEPT !.title = "T", !.priority = "Bogus"]}

ValidUpdateBodies ==
    {[NoBody EXCEPT !.status = "In Progress"],
     [NoBody EXCEPT !.status = "Bogus"],
     [NoBody EXCEPT !.title = "T2", !.priority = "Bogus"]}

NextValid ==
    \/ \E b \in ValidCreateBodies : CreateTask("u1", b)
    \/ \E s \in Slots, id \in TaskIds, b \in ValidUpdateBodies :
          UpdateFind(s, "u1", id, b)
    \/ \E s \in Slots : UpdateSave(s)

SpecValid == Init /\ [][NextValid]_vars

(***************************************************************************)
(* Properties of the list and leaderboard handlers                         *)
(***************************************************************************)
Listed == {last.tasks[i]._id : i \in 1..Len(last.tasks)}

\* C1: a list response to a requester with role user holds only tasks of the
\* store whose createdBy or assignedTo is the requester, whatever the filters
\* and the sort, on either router.
C1_UserSeesOnlyOwn ==
    (last.op \in {"list", "listLegacy"} /\ Role(last.user) = "user") =>
        \A i \in 1..Len(last.tasks) :
            /\ last.tasks[i]._id \in Ids(tasks)
            /\ \/ FindById(tasks, last.tasks[i]._id).createdBy = last.user
               \/ FindById(tasks, last.tasks[i]._id).assignedTo = last.user
            /\ \/ last.tasks[i].createdBy = last.user
               \/ last.tasks[i].assignedTo = last.user

\* A filtered list by a user returned a task while the store holds a task
\* that is neither created by nor assigned to that user.
C1_Witness ==
    /\ last.op = "list" /\ Role(last.user) = "user" /\ last.status = 200
    /\ last.query.status # ""
    /\ Len(last.tasks) >= 1
    /\ \E t \in tasks : t.createdBy # last.user /\ t.assignedTo # last.user
                        /\ t.status = last.query.status

\* C2: a list response to an admin holds, once each, exactly the tasks of
\* the store that equal every filter the request supplied (status, priority,
\* and the due date when one is given), whoever owns them and whatever the sort.
C2_AdminSeesAllMatching ==
    (last.op = "list" /\ Role(last.user) = "admin" /\ last.status = 200) =>
        /\ Listed = {t._id : t \in {x \in tasks :
                        /\ last.query.status # "" => x.status = last.query.status
                        /\ last.query.priority # "" => x.priority = last.query.priority
                        /\ last.query.dueDate # NoDate => x.dueDate = last.query.dueDate}}
        /\ Cardinality(Listed) = Len(last.tasks)

\* An admin's list with a status filter and the sort -dueDate returned a task
\* without a due date that the admin neither created nor is assigned, and
\* left out a task of another status.
C2_Witness ==
    /\ last.op = "list" /\ last.user = "adm" /\ last.status = 200
    /\ last.query.status = "To Do" /\ last.query.sort = <<"-", "dueDate">>
    /\ \E i \in 1..Len(last.tasks) :
          /\ last.tasks[i].dueDate = NoDate
          /\ last.tasks[i].createdBy # "adm" /\ last.tasks[i].assignedTo # "adm"
    /\ \E t \in tasks : t.status # "To Do"

\* C8: a leaderboard response has one row for each user of the directory who
\* is the assignee of a Completed task and no other row, each row counts those
\* tasks, and the rows are in non-increasing order of their counts; the
\* requester, user or admin, plays no part.
C8_Leaderboard ==
    last.op = "leaderboard" =>
        /\ last.status = 200
        /\ \A i, j \in 1..Len(last.rows) : i # j => last.rows[i]._id # last.rows[j]._id
        /\ {last.rows[i]._id : i \in 1..Len(last.rows)}
             = {u \in Users : \E t \in tasks : t.status = "Completed" /\ t.assignedTo = u}
        /\ \A i \in 1..Len(last.rows) :
              last.rows[i].completedTasks
                = Cardinality({t \in tasks : /\ t.status = "Completed"
                                             /\ t.assignedTo = last.rows[i]._id})
        /\ \A i, j \in 1..Len(last.rows) :
              i < j => last.rows[i].completedTasks >= last.rows[j].completedTasks

\* A user, not an admin, got u1 with two completed tasks ranked above u2 with one.
C8_Witness ==
    /\ last.op = "leaderboard" /\ Role(last.user) = "user"
    /\ Len(last.rows) = 2
    /\ last.rows[1] = [_id |-> "u1", completedTasks |-> 2]
    /\ last.rows[2] = [_id |-> "u2", completedTasks |-> 1]

(***************************************************************************)
(* Properties of the due-date sort                                         *)
(***************************************************************************)
DatedFirst(seq) ==
    \A i, j \in 1..Len(seq) :
        (i < j /\ seq[i].dueDate = NoDate) => seq[j].dueDate = NoDate

AscendingDates(seq) ==
    \A i, j \in 1..Len(seq) :
        (i < j /\ seq[i].dueDate # NoDate /\ seq[j].dueDate # NoDate)
            => seq[i].dueDate <= seq[j].dueDate

DescendingDates(seq) ==
    \A i, j \in 1..Len(seq) :
        (i < j /\ seq[i].dueDate # NoDate /\ seq[j].dueDate # NoDate)
            => seq[i].dueDate >= seq[j].dueDate

\* C6: a list response for sort = -dueDate holds the tasks with a due date in
\* descending order of their due dates, and after them the tasks without one.
C6_DescendingThenUndated ==
    (last.op = "list" /\ last.status = 200 /\ last.query.sort = <<"-", "dueDate">>)
        => DatedFirst(last.tasks) /\ DescendingDates(last.tasks)

\* C7: a list response for sort = dueDate holds the tasks with a due date in
\* ascending order of their due dates, and after them the tasks without one;
\* for either direction no task without a due date precedes one with a due date.
C7_AscendingThenUndated ==
    (last.op = "list" /\ last.status = 200
        /\ last.query.sort \in {<<"dueDate">>, <<"-", "dueDate">>})
        => /\ DatedFirst(last.tasks)
           /\ last.query.sort = <<"dueDate">> => AscendingDates(last.tasks)

(***************************************************************************)
(* Properties of update, delete and create                                 *)
(***************************************************************************)
Mutating == {"update", "delete"}

\* A step that lets an update or delete request past the gate into slot s.
Admitted(s) == reqs[s] = Idle /\ reqs'[s].op \in Mutating

\* A step that refuses an update or delete request with 403 or 404.
Refused == last'.op \in Mutating /\ last'.status \in {403, 404}

\* C3: on an existing task an update or delete request passes the gate only if
\* the requester created the task or is an admin, and is refused with 403 only
\* if the requester neither created it nor is an admin.
C3_PermittedIffCreatorOrAdmin ==
    [][/\ \A s \in Slots :
            Admitted(s) =>
                LET t == FindById(tasks, reqs'[s].id)
                IN  /\ t # NoTask
                    /\ t.createdBy = reqs'[s].user
                         \/ Role(reqs'[s].user) = "admin"
       /\ Refused =>
            LET t == FindById(tasks, last'.id)
            IN  /\ last'.status = 404 <=> t = NoTask
                /\ last'.status = 403 =>
                     /\ t.createdBy # last'.user
                     /\ Role(last'.user) # "admin"]_vars

\* An assignee who is no admin has just been refused with 403 while a request
\* of an admin who is neither creator nor assignee of that task is past the gate.
C3_Witness ==
    /\ last.op \in Mutating /\ last.status = 403
    /\ LET t == FindById(tasks, last.id)
       IN  /\ t # NoTask
           /\ t.assignedTo = last.user /\ t.createdBy # last.user
           /\ \E s \in Slots :
                /\ reqs[s].op \in Mutating /\ reqs[s].id = t._id
                /\ Role(reqs[s].user) = "admin"
                /\ t.createdBy # reqs[s].user /\ t.assignedTo # reqs[s].user

\* C4: an update or delete request that ends in 403 or 404 leaves the Task
\* Store as it was: no document is added, removed or changed.
C4_RefusalLeavesStore ==
    [][Refused => tasks' = tasks]_vars

\* A delete request of a user who did not create the task got 403 and the task
\* is stored.
C4_Witness ==
    /\ last.op = "delete" /\ last.status = 403
    /\ Role(last.user) = "user"
    /\ last.id \in Ids(tasks)

\* An id the store handed out and no longer holds: its task has been deleted.
Deleted(id) == id < nextId /\ id \notin Ids(tasks)

SeqIds(seq) == {seq[i]._id : i \in 1..Len(seq)}

\* C5: a deleted task stays absent from the Task Store, whatever a request that
\* read it earlier saves; an update or delete request started after the
\* deletion gets 404; a list request started after it neither finds nor
\* returns the task.
C5_DeletedStaysDeleted ==
    [][\A id \in TaskIds :
        Deleted(id) =>
            /\ id \notin Ids(tasks')
            /\ \A s \in Slots : Admitted(s) => reqs'[s].id # id
            /\ (reqs' = reqs /\ last'.op \in Mutating /\ last'.id = id)
                    => last'.status = 404
            /\ \A s \in Slots :
                    (reqs[s] = Idle /\ reqs'[s].op = "list")
                        => id \notin SeqIds(reqs'[s].tasks)
            /\ \A s \in Slots :
                    (reqs[s].op = "list" /\ reqs'[s] = Idle)
                        => SeqIds(last'.tasks) \subseteq SeqIds(reqs[s].tasks)]_vars

\* The delete request of the task's owner, who is no admin, has just succeeded
\* while an update request that read the task before is about to save.
C5_Witness ==
    /\ last.op = "delete" /\ last.status = 200 /\ Role(last.user) = "user"
    /\ Deleted(last.id)
    /\ \E s \in Slots :
            /\ reqs[s].op = "update" /\ reqs[s].pc = "saving"
            /\ reqs[s].id = last.id

\* C9: a create request whose assignedTo names no existing user is answered
\* with 400 and leaves the Task Store as it was.
C9_GhostAssigneeRejected ==
    [][(/\ last'.op \in {"create", "createLegacy"}
        /\ last'.body.assignedTo # ""
        /\ last'.body.assignedTo \notin Users)
            => last'.status = 400 /\ tasks' = tasks]_vars

\* C10: after a create request answered with 201 the store holds the new task,
\* its createdBy is the requester, and its assignedTo is the requester when the
\* body had no assignedTo and the supplied existing user otherwise.
C10_CreatorAndAssignee ==
    (last.op = "create" /\ last.status = 201)
        => /\ last.task \in tasks
           /\ last.task.createdBy = last.user
           /\ last.body.assignedTo = "" => last.task.assignedTo = last.user
           /\ last.body.assignedTo # ""
                => /\ last.body.assignedTo \in Users
                   /\ last.task.assignedTo = last.body.assignedTo

\* A user has just created a task assigned to another existing user.
C10_Witness ==
    /\ last.op = "create" /\ last.status = 201
    /\ last.user = "u1" /\ last.body.assignedTo = "u2"
    /\ last.task \in tasks

(***************************************************************************)
(* Properties of the update handler                                        *)
(***************************************************************************)
UpdateFields ==
    {"title", "description", "status", "priority", "dueDate", "assignedTo"}

\* The payload has a value for the field that JavaScript takes as true.
Supplied(b, f) == IF f = "dueDate" THEN b.dueDate # NoDate ELSE b[f] # ""

\* The stored document differs from the one request r holds in exactly the
\* paths r modified: nothing r left alone was written since r read it.
AsRead(cur, r) == Modified(cur, r.task) = r.mod

\* A step in which the update request of slot s saves and is answered with 200.
Saved(s) ==
    /\ reqs[s].op = "update" /\ reqs[s].pc = "saving"
    /\ reqs'[s] = Idle /\ last'.status = 200

C12_CreatedByFixed ==
    [][/\ \A t \in tasks, n \in tasks' :
            n._id = t._id => n.createdBy = t.createdBy
       /\ \A n \in tasks' :
            n._id \notin Ids(tasks) =>
                /\ n._id = nextId /\ nextId' = nextId + 1
                /\ last'.op \in {"create", "createLegacy"} /\ last'.status = 201
                /\ n.createdBy = last'.user
       /\ \A n \in tasks' : n.createdBy \in Users]_vars

\* An admin's update whose body names another createdBy has been saved on a
\* task that a user created; the task has the body's assignee and its creator.
C12_Witness ==
    /\ last.op = "update" /\ last.status = 200 /\ Role(last.user) = "admin"
    /\ last.body.createdBy = "u2"
    /\ LET t == FindById(tasks, last.id)
       IN  t.createdBy = "u1" /\ t.assignedTo = last.body.assignedTo

\* C13: the response of a list request with a dueDate sort is the order that
\* its own sort parameter gives to the tasks the store holds (the store of
\* SpecSort does not change), whatever other list requests ran between its
\* query and its response.
C13_OrderIsOwn ==
    (last.op = "list" /\ last.status = 200
        /\ last.query.sort \in {<<"dueDate">>, <<"-", "dueDate">>})
        => last.tasks = Reorder(Find(tasks, last.user, last.query),
                                last.query.sort, SortDir(last.query.sort))

\* C14: in a list response for a dueDate sort, two tasks with the same due
\* date, and two tasks without a due date, are in ascending order of their ids
\* for sort = dueDate and in descending order of their ids for sort = -dueDate.
C14_TieBreakById ==
    (last.op = "list" /\ last.status = 200
        /\ last.query.sort \in {<<"dueDate">>, <<"-", "dueDate">>})
        => \A i, j \in 1..Len(last.tasks) :
                (i < j /\ last.tasks[i].dueDate = last.tasks[j].dueDate)
                    => IF last.query.sort = <<"dueDate">>
                       THEN last.tasks[i]._id < last.tasks[j]._id
                       ELSE last.tasks[i]._id > last.tasks[j]._id

(***************************************************************************)
(* Properties of the schema                                                *)
(***************************************************************************)
ValidTask(t) ==
    t.title # "" /\ t.status \in StatusEnum /\ t.priority \in PriorityEnum

\* The payload of a create or update request that would store a task without
\* a title or with a status or priority outside the enums.
Breaks(r) ==
    \/ r.op = "create" /\ r.body.title = ""
    \/ r.body.status # "" /\ r.body.status \notin StatusEnum
    \/ r.body.priority # "" /\ r.body.priority \notin PriorityEnum

\* C15: every stored task has a title and a status and a priority of the
\* enums, and a step that answers a create or update request whose payload
\* would break this answers with an error and leaves the store as it was.
C15_SchemaKept ==
    [][/\ \A t \in tasks' : ValidTask(t)
       /\ (last'.op \in {"create", "update"} /\ Breaks(last'))
            => last'.status \in {400, 404, 500} /\ tasks' = tasks]_vars

\* An update with a new title and a priority outside the enum was answered
\* with 500 and the stored task has its old title and priority.
C15_Witness ==
    /\ last.op = "update" /\ last.status = 500
    /\ last.body.title = "T2" /\ last.body.priority = "Bogus"
    /\ LET t == FindById(tasks, last.id)
       IN  t # NoTask /\ t.title = "T" /\ t.priority \in PriorityEnum

====
